---- MODULE Spec2Model ----
(***************************************************************************)
(* A model of qcl (theZMC/qcl): Load fills a caller's configuration struct *)
(* from environment variables and command-line flags.                      *)
(*                                                                         *)
(* Strings are sequences of one-character strings, so that splitting,      *)
(* joining, case conversion and parsing are computed character by          *)
(* character as the Go code computes them.                                 *)
(***************************************************************************)
EXTENDS Integers, Sequences, FiniteSets, TLC

(***************************************************************************)
(* Characters and the string helpers of package strings / unicode.         *)
(***************************************************************************)
UpperChars == <<"A","B","C","D","E","F","G","H","I","J","K","L","M",
                "N","O","P","Q","R","S","T","U","V","W","X","Y","Z">>

LowerChars == <<"a","b","c","d","e","f","g","h","i","j","k","l","m",
                "n","o","p","q","r","s","t","u","v","w","x","y","z">>

Digits == <<"0","1","2","3","4","5","6","7","8","9">>

Range(f) == {f[i] : i \in DOMAIN f}

IndexOf(c, seq) == CHOOSE i \in DOMAIN seq : seq[i] = c

IsUpper(c) == c \in Range(UpperChars)

IsLower(c) == c \in Range(LowerChars)

IsDigit(c) == c \in Range(Digits)

ToUpperChar(c) == IF IsLower(c) THEN UpperChars[IndexOf(c, LowerChars)] ELSE c

ToLowerChar(c) == IF IsUpper(c) THEN LowerChars[IndexOf(c, UpperChars)] ELSE c

ToUpper(s) == [i \in DOMAIN s |-> ToUpperChar(s[i])]

ToLower(s) == [i \in DOMAIN s |-> ToLowerChar(s[i])]

HasSuffix(s, suf) ==
    /\ Len(suf) <= Len(s)
    /\ SubSeq(s, Len(s) - Len(suf) + 1, Len(s)) = suf

HasPrefix(s, pre) ==
    /\ Len(pre) <= Len(s)
    /\ SubSeq(s, 1, Len(pre)) = pre

\* strings.Index: the 1-based position of the first occurrence of sep in s,
\* 0 when there is none (sep non-empty).
Index(s, sep) ==
    LET hits == {i \in 1..(Len(s) - Len(sep) + 1) : SubSeq(s, i, i + Len(sep) - 1) = sep}
    IN  IF hits = {} THEN 0 ELSE CHOOSE i \in hits : \A j \in hits : i <= j

RECURSIVE Split(_, _)
\* strings.Split: an empty separator explodes s into its characters; a
\* non-empty one cuts s at every non-overlapping occurrence, so that
\* Split("", ",") is one empty string.
Split(s, sep) ==
    IF sep = <<>>
    THEN [i \in DOMAIN s |-> <<s[i]>>]
    ELSE LET i == Index(s, sep)
         IN  IF i = 0
             THEN <<s>>
             ELSE <<SubSeq(s, 1, i - 1)>> \o Split(SubSeq(s, i + Len(sep), Len(s)), sep)

RECURSIVE SplitN(_, _, _)
\* strings.SplitN for a non-empty separator and n >= 1: at most n substrings,
\* the last one holding the unsplit remainder.
SplitN(s, sep, n) ==
    LET i == Index(s, sep)
    IN  IF n <= 1 \/ i = 0
        THEN <<s>>
        ELSE <<SubSeq(s, 1, i - 1)>> \o SplitN(SubSeq(s, i + Len(sep), Len(s)), sep, n - 1)

RECURSIVE Join(_, _)
Join(parts, sep) ==
    IF parts = <<>> THEN <<>>
    ELSE IF Len(parts) = 1 THEN parts[1]
    ELSE parts[1] \o sep \o Join(Tail(parts), sep)

RECURSIVE TrimLeft(_)
TrimLeft(s) == IF s # <<>> /\ Head(s) = " " THEN TrimLeft(Tail(s)) ELSE s

RECURSIVE TrimRight(_)
TrimRight(s) ==
    IF s # <<>> /\ s[Len(s)] = " " THEN TrimRight(SubSeq(s, 1, Len(s) - 1)) ELSE s

TrimSpace(s) == TrimRight(TrimLeft(s))

(***************************************************************************)
(* common.go: the word splitter.                                           *)
(***************************************************************************)
RECURSIVE splitScan(_, _)
\* The loop of splitOnWordBoundaries at 0-based index i of s.
splitScan(s, i) ==
    IF i >= Len(s) THEN <<s>>
    ELSE IF i = 0 THEN splitScan(s, i + 1)
    ELSE IF i = Len(s) - 1 THEN <<s>>
    ELSE IF IsUpper(s[i + 1]) /\ IsLower(s[i])
         THEN <<SubSeq(s, 1, i)>> \o splitScan(SubSeq(s, i + 1, Len(s)), 0)
    ELSE IF IsUpper(s[i + 1]) /\ IsUpper(s[i]) /\ IsLower(s[i + 2])
         THEN <<SubSeq(s, 1, i)>> \o splitScan(SubSeq(s, i + 1, Len(s)), 0)
    ELSE splitScan(s, i + 1)

splitOnWordBoundariesShort(s) == IF Len(s) <= 1 THEN <<>> ELSE splitScan(s, 0)

splitOnWordBoundaries(s) == IF Len(s) = 0 THEN <<>> ELSE splitScan(s, 0)

(***************************************************************************)
(* Shapes (reflect.Type) and values (reflect.Value).                       *)
(*   A struct field is [name, tag, anon, exported, typ]; tag maps a tag    *)
(*   key to its text (reflect.StructTag).                                  *)
(*   Integers carry their bit width; a duration counts whole seconds.      *)
(***************************************************************************)
TString == [kind |-> "string"]

TBool == [kind |-> "bool"]

TInt(bits) == [kind |-> "int", bits |-> bits]

TUint(bits) == [kind |-> "uint", bits |-> bits]

TFloat(bits) == [kind |-> "float", bits |-> bits]

TDuration == [kind |-> "duration"]

TChan == [kind |-> "chan"]

TSlice(elem) == [kind |-> "slice", elem |-> elem]

TMap(elem) == [kind |-> "map", elem |-> elem]

TPtr(elem) == [kind |-> "ptr", elem |-> elem]

TStruct(fields) == [kind |-> "struct", fields |-> fields]

NoTag == [k \in {} |-> <<>>]

Fld(name, typ) == [name |-> name, tag |-> NoTag, anon |-> FALSE, exported |-> TRUE, typ |-> typ]

Tagged(name, tag, typ) == [name |-> name, tag |-> tag, anon |-> FALSE, exported |-> TRUE, typ |-> typ]

Embedded(name, typ) == [name |-> name, tag |-> NoTag, anon |-> TRUE, exported |-> TRUE, typ |-> typ]

Unexported(name, typ) == [name |-> name, tag |-> NoTag, anon |-> FALSE, exported |-> FALSE, typ |-> typ]

VString(s) == [k |-> "string", s |-> s]

VBool(b) == [k |-> "bool", b |-> b]

VInt(n) == [k |-> "int", n |-> n]

VUint(n) == [k |-> "uint", n |-> n]

\* A float is mant / 10^exp with no trailing zero in the fraction.
VFloat(mant, exp) == [k |-> "float", mant |-> mant, exp |-> exp]

VDuration(secs) == [k |-> "duration", secs |-> secs]

VChan == [k |-> "chan"]

VNilSlice == [k |-> "slice", nil |-> TRUE, elems |-> <<>>]

VSlice(elems) == [k |-> "slice", nil |-> FALSE, elems |-> elems]

EmptyMap == [key \in {} |-> <<>>]

VNilMap == [k |-> "map", nil |-> TRUE, m |-> EmptyMap]

VMap(m) == [k |-> "map", nil |-> FALSE, m |-> m]

VNilPtr == [k |-> "ptr", nil |-> TRUE]

VPtr(elem) == [k |-> "ptr", nil |-> FALSE, elem |-> elem]

VStruct(fields) == [k |-> "struct", f |-> fields]

RECURSIVE Zero(_)
\* reflect.New(t).Elem(): the zero value of a shape.
Zero(t) ==
    CASE t.kind = "string" -> VString(<<>>)
      [] t.kind = "bool" -> VBool(FALSE)
      [] t.kind = "int" -> VInt(0)
      [] t.kind = "uint" -> VUint(0)
      [] t.kind = "float" -> VFloat(0, 0)
      [] t.kind = "duration" -> VDuration(0)
      [] t.kind = "chan" -> VChan
      [] t.kind = "slice" -> VNilSlice
      [] t.kind = "map" -> VNilMap
      [] t.kind = "ptr" -> VNilPtr
      [] t.kind = "struct" -> VStruct([i \in DOMAIN t.fields |-> Zero(t.fields[i].typ)])

(***************************************************************************)
(* strconv and time parsers.  The value texts of the model are short       *)
(* decimal texts, so the 64-bit range check never fires, a float is        *)
(* [sign] digits [ "." digits ] and a duration is [sign] digits unit with  *)
(* unit s, m or h ("13s", "2m").  A parser returns [err, v].               *)
(***************************************************************************)
Pow2(n) == 2 ^ n

AllDigits(s) == \A i \in DOMAIN s : IsDigit(s[i])

RECURSIVE DigitsToNat(_)
DigitsToNat(s) ==
    IF s = <<>> THEN 0
    ELSE 10 * DigitsToNat(SubSeq(s, 1, Len(s) - 1)) + (IndexOf(s[Len(s)], Digits) - 1)

NoErr == "nil"

Parsed(v) == [err |-> NoErr, v |-> v]

ParseFail(e) == [err |-> e, v |-> 0]

\* The sign of a numeric text and the text after it.
SignOf(s) == IF s # <<>> /\ Head(s) = "-" THEN 0 - 1 ELSE 1

Unsigned(s) == IF s # <<>> /\ Head(s) \in {"-", "+"} THEN Tail(s) ELSE s

\* The range check of ParseInt / ParseUint for the bit size asked for.
Ranged(n, bits, signed) ==
    IF bits >= 32 THEN Parsed(n)
    ELSE IF signed /\ (n < 0 - Pow2(bits - 1) \/ n >= Pow2(bits - 1))
         THEN ParseFail("strconv.ErrRange")
    ELSE IF ~signed /\ n >= Pow2(bits) THEN ParseFail("strconv.ErrRange")
    ELSE Parsed(n)

\* strconv.ParseUint(s, 10, bits)
ParseUint(s, bits) ==
    IF s = <<>> \/ ~AllDigits(s) THEN ParseFail("strconv.ErrSyntax")
    ELSE Ranged(DigitsToNat(s), bits, FALSE)

\* strconv.ParseInt(s, 10, bits)
ParseInt(s, bits) ==
    IF Unsigned(s) = <<>> \/ ~AllDigits(Unsigned(s)) THEN ParseFail("strconv.ErrSyntax")
    ELSE Ranged(SignOf(s) * DigitsToNat(Unsigned(s)), bits, TRUE)

TrueStrings == {<<"1">>, <<"t">>, <<"T">>, <<"T","R","U","E">>, <<"t","r","u","e">>, <<"T","r","u","e">>}

FalseStrings == {<<"0">>, <<"f">>, <<"F">>, <<"F","A","L","S","E">>, <<"f","a","l","s","e">>,
                 <<"F","a","l","s","e">>}

\* strconv.ParseBool, the result as a bool value
ParseBool(s) ==
    IF s \in TrueStrings THEN Parsed(VBool(TRUE))
    ELSE IF s \in FalseStrings THEN Parsed(VBool(FALSE))
    ELSE ParseFail("strconv.ErrSyntax")

RECURSIVE StripZeros(_)
StripZeros(s) ==
    IF s # <<>> /\ s[Len(s)] = "0" THEN StripZeros(SubSeq(s, 1, Len(s) - 1)) ELSE s

\* The float of an integer part and a fraction part, both digit texts.
floatOf(sign, ip, fp) ==
    IF ~AllDigits(ip) \/ ~AllDigits(fp) \/ (ip = <<>> /\ fp = <<>>)
    THEN ParseFail("strconv.ErrSyntax")
    ELSE Parsed(VFloat(sign * DigitsToNat(ip \o StripZeros(fp)), Len(StripZeros(fp))))

floatParts(sign, parts) == floatOf(sign, parts[1], IF Len(parts) = 2 THEN parts[2] ELSE <<>>)

\* strconv.ParseFloat, the result as a float value
ParseFloat(s) == floatParts(SignOf(s), SplitN(Unsigned(s), <<".">>, 2))

UnitSeconds(u) ==
    CASE u = "s" -> 1
      [] u = "m" -> 60
      [] u = "h" -> 3600
      [] OTHER -> 0

\* The duration of a text of digits followed by one unit character.
durationOf(sign, digits, unit) ==
    IF digits = <<>> \/ ~AllDigits(digits) \/ UnitSeconds(unit) = 0
    THEN ParseFail("time: invalid duration")
    ELSE Parsed(VDuration(sign * DigitsToNat(digits) * UnitSeconds(unit)))

\* time.ParseDuration, the result as a duration value
ParseDuration(s) ==
    IF Unsigned(s) = <<"0">> THEN Parsed(VDuration(0))
    ELSE IF Unsigned(s) = <<>> THEN ParseFail("time: invalid duration")
    ELSE durationOf(SignOf(s), SubSeq(Unsigned(s), 1, Len(Unsigned(s)) - 1),
                    Unsigned(s)[Len(Unsigned(s))])

\* reflect.Value.SetInt / SetUint store the parsed 64-bit value into the
\* field's width without a range check.
WrapInt(n, bits) ==
    IF bits >= 32 THEN n
    ELSE ((n + Pow2(bits - 1)) % Pow2(bits)) - Pow2(bits - 1)

WrapUint(n, bits) == IF bits >= 32 THEN n ELSE n % Pow2(bits)

SetInt(p, bits) == IF p.err # NoErr THEN p ELSE Parsed(VInt(WrapInt(p.v, bits)))

SetUint(p, bits) == IF p.err # NoErr THEN p ELSE Parsed(VUint(WrapUint(p.v, bits)))

(***************************************************************************)
(* common.go: the value coercer and the collection assembler.  Each        *)
(* returns [v, err]: the value as the call left it (mutations made before  *)
(* a failure stay) and the error, NoErr for nil.                           *)
(***************************************************************************)
Res(v, err) == [v |-> v, err |-> err]

\* "if err != nil { return err }" and then the store of the parsed value p.v
Stored(v, p) == IF p.err # NoErr THEN Res(v, p.err) ELSE Res(p.v, NoErr)

splitPairsEvery(kv) == [i \in DOMAIN kv |-> Split(kv[i], <<"=">>)]

\* strings.SplitN(kv, "=", 2) of every entry
splitPairs(kv) == [i \in DOMAIN kv |-> SplitN(kv[i], <<"=">>, 2)]

trimAll(parts) == [i \in DOMAIN parts |-> TrimSpace(parts[i])]

RECURSIVE setField(_, _, _, _)
RECURSIVE sliceAppendAll(_, _, _, _)
RECURSIVE mapSetAll(_, _, _, _, _)

\* The rest of one iteration of setSliceValues, r the result of setField on
\* the new element.
sliceAppended(v, typ, r, rest, separator) ==
    IF r.err # NoErr THEN Res(v, r.err)
    ELSE sliceAppendAll(VSlice(Append(v.elems, r.v)), typ, rest, separator)

\* The loop of setSliceValues over the remaining values.
sliceAppendAll(v, typ, values, separator) ==
    IF values = <<>> THEN Res(v, NoErr)
    ELSE sliceAppended(v, typ, setField(Zero(typ.elem), typ.elem, Head(values), separator),
                       Tail(values), separator)

setSliceValuesReplace(v, typ, values, separator) ==
    IF typ.kind # "slice" THEN Res(v, "NotASliceError")
    ELSE sliceAppendAll(VSlice(<<>>), typ, values, separator)

setSliceValues(v, typ, values, separator) ==
    IF typ.kind # "slice" THEN Res(v, "NotASliceError")
    ELSE sliceAppendAll(IF v.nil THEN VSlice(<<>>) ELSE v, typ, values, separator)

\* The rest of one iteration of setMapKeysAndValues, r the result of setField
\* on the new map value.
mapIndexSet(v, typ, r, keys, values, separator) ==
    IF r.err # NoErr THEN Res(v, r.err)
    ELSE mapSetAll(VMap((Head(keys) :> r.v) @@ v.m), typ, Tail(keys), Tail(values), separator)

\* The loop of setMapKeysAndValues over the remaining keys.
mapSetAll(v, typ, keys, values, separator) ==
    IF keys = <<>> THEN Res(v, NoErr)
    ELSE mapIndexSet(v, typ, setField(Zero(typ.elem), typ.elem, Head(values), separator),
                     keys, values, separator)

setMapKeysAndValuesReplace(v, typ, keys, values, separator) ==
    IF typ.kind # "map" THEN Res(v, "NotAMapError")
    ELSE IF Len(keys) # Len(values) THEN Res(v, "InvalidMapValueError")
    ELSE mapSetAll(VMap(EmptyMap), typ, keys, values, separator)

setMapKeysAndValues(v, typ, keys, values, separator) ==
    IF typ.kind # "map" THEN Res(v, "NotAMapError")
    ELSE IF Len(keys) # Len(values) THEN Res(v, "InvalidMapValueError")
    ELSE mapSetAll(IF v.nil THEN VMap(EmptyMap) ELSE v, typ, keys, values, separator)

\* The key=value decoding that precedes setMapKeysAndValues: pairs are the
\* entries split at "=", err the error for an entry that did not split in two.
setMapPairs(v, typ, pairs, separator, err) ==
    IF \E i \in DOMAIN pairs : Len(pairs[i]) # 2 THEN Res(v, err)
    ELSE setMapKeysAndValues(v, typ, [i \in DOMAIN pairs |-> pairs[i][1]],
                             [i \in DOMAIN pairs |-> pairs[i][2]], separator)

\* setField on a settable value (every caller passes a settable struct field
\* or a freshly allocated element).
setField(v, typ, value, separator) ==
    CASE typ.kind = "duration" -> Stored(v, ParseDuration(value))
      [] typ.kind = "string" -> Res(VString(value), NoErr)
      [] typ.kind = "bool" -> Stored(v, ParseBool(value))
      [] typ.kind = "int" -> Stored(v, SetInt(ParseInt(value, 64), typ.bits))
      [] typ.kind = "uint" -> Stored(v, SetUint(ParseUint(value, 64), typ.bits))
      [] typ.kind = "float" -> Stored(v, ParseFloat(value))
      [] typ.kind = "slice" -> setSliceValues(v, typ, Split(value, separator), separator)
      [] typ.kind = "map" ->
            setMapPairs(v, typ, splitPairs(Split(value, separator)), separator,
                        "InvalidMapValueError")
      [] OTHER -> Res(v, "UnsupportedTypeError")

(***************************************************************************)
(* The environment loader.  The environment is a function from variable    *)
(* names to texts; os.Getenv gives the empty text for an unset variable.   *)
(* A walk is [v, err, reads]: the value so far, the error, and every       *)
(* os.Getenv call so far, in order, as [path, name, value], path being the *)
(* field's index path from the root struct.                                *)
(***************************************************************************)
Getenv(e, name) == IF name \in DOMAIN e THEN e[name] ELSE <<>>

Walk(v, err, reads) == [v |-> v, err |-> err, reads |-> reads]

Read(path, name, value) == [path |-> path, name |-> name, value |-> value]

\* val.Field(i) replaced in a struct value.
Put(val, i, x) == VStruct([val.f EXCEPT ![i] = x])

\* "if val.Kind() == reflect.Ptr { if val.IsNil() { val.Set(reflect.New(...)) };
\* val = val.Elem() }": the value and the shape the loader goes on with, and
\* the field as the allocation leaves it once r is done with the pointee.
Elem(v, typ) == IF typ.kind = "ptr" THEN (IF v.nil THEN Zero(typ.elem) ELSE v.elem) ELSE v

ElemType(typ) == IF typ.kind = "ptr" THEN typ.elem ELSE typ

Reptr(typ, r) == IF typ.kind = "ptr" THEN [r EXCEPT !.v = VPtr(r.v)] ELSE r

\* The text the name segment of a field is derived from, and the segment.
envFieldText(field, structTag) ==
    IF structTag # "" /\ structTag \in DOMAIN field.tag
    THEN Split(TrimSpace(field.tag[structTag]), <<",">>)[1]
    ELSE field.name

envFieldName(field, structTag) ==
    Join(splitOnWordBoundaries(envFieldText(field, structTag)), <<"_">>)

RECURSIVE envSetFields(_, _, _, _, _, _, _, _)
RECURSIVE envSetFieldsFrom(_, _, _, _, _, _, _, _, _)

\* An embedded struct is walked under the prefix of the struct that embeds it.
envEmbedded(cur, field, path, envPrefix, structTag, separator, e, reads) ==
    IF field.anon /\ field.typ.kind = "struct"
    THEN envSetFields(cur, field.typ, path, envPrefix, structTag, separator, e, reads)
    ELSE Walk(cur, NoErr, reads)

\* A struct (w.v, of shape typ) is walked under the prefix extended by fName.
envNested(w, typ, fName, path, envPrefix, structTag, separator, e) ==
    IF w.err # NoErr \/ typ.kind # "struct" THEN w
    ELSE envSetFields(w.v, typ, path, envPrefix \o fName \o <<"_">>, structTag, separator, e,
                      w.reads)

\* The result r of setField recorded in the walk.
envStored(r, reads) == Walk(r.v, r.err, reads)

envStoreAlways(w, typ, path, name, value, separator) ==
    IF w.err # NoErr THEN w
    ELSE envStored(setField(w.v, typ, value, separator), Append(w.reads, Read(path, name, value)))

\* "if v := os.Getenv(name); v != "" { setField(val, v, separator) }"
envStore(w, typ, path, name, value, separator) ==
    IF w.err # NoErr THEN w
    ELSE IF value # <<>>
         THEN envStored(setField(w.v, typ, value, separator),
                        Append(w.reads, Read(path, name, value)))
    ELSE Walk(w.v, NoErr, Append(w.reads, Read(path, name, value)))

envSettableLookupFirst(w, typ, fName, path, envPrefix, structTag, separator, e) ==
    envNested(envStore(w, typ, path, ToUpper(envPrefix \o fName),
                       Getenv(e, ToUpper(envPrefix \o fName)), separator),
              typ, fName, path, envPrefix, structTag, separator, e)

\* The settable part of the loop body on w, the walk after the embedded visit
\* with w.v the pointee or the field itself, of shape typ.
envSettable(w, typ, fName, path, envPrefix, structTag, separator, e) ==
    envStore(envNested(w, typ, fName, path, envPrefix, structTag, separator, e), typ, path,
             ToUpper(envPrefix \o fName), Getenv(e, ToUpper(envPrefix \o fName)), separator)

\* The pointer of the field followed, once the embedded visit w went well.
envElem(w, typ) == IF w.err # NoErr THEN w ELSE Walk(Elem(w.v, typ), NoErr, w.reads)

\* The body of the loop of envSetFields for one field, whose value is cur.
envSetFieldBody(cur, field, path, envPrefix, structTag, separator, e, reads) ==
    IF ~field.exported THEN Walk(cur, NoErr, reads)
    ELSE Reptr(field.typ,
               envSettable(envElem(envEmbedded(cur, field, path, envPrefix, structTag,
                                               separator, e, reads),
                                   field.typ),
                           ElemType(field.typ), envFieldName(field, structTag), path,
                           envPrefix, structTag, separator, e))

envSetFieldsNextReset(r, val, typ, i, path, envPrefix, structTag, separator, e) ==
    IF r.err # NoErr THEN Walk(Zero(typ), r.err, r.reads)
    ELSE envSetFieldsFrom(Put(val, i, r.v), typ, i + 1, path, envPrefix, structTag, separator,
                          e, r.reads)

\* The loop of envSetFields after field i, r the walk of that field.
envSetFieldsNext(r, val, typ, i, path, envPrefix, structTag, separator, e) ==
    IF r.err # NoErr THEN Walk(Put(val, i, r.v), r.err, r.reads)
    ELSE envSetFieldsFrom(Put(val, i, r.v), typ, i + 1, path, envPrefix, structTag, separator,
                          e, r.reads)

\* The loop of envSetFields from field i on.
envSetFieldsFrom(val, typ, i, path, envPrefix, structTag, separator, e, reads) ==
    IF i > Len(typ.fields) THEN Walk(val, NoErr, reads)
    ELSE envSetFieldsNext(envSetFieldBody(val.f[i], typ.fields[i], path \o <<i>>, envPrefix,
                                          structTag, separator, e, reads),
                          val, typ, i, path, envPrefix, structTag, separator, e)

envSetFields(val, typ, path, envPrefix, structTag, separator, e, reads) ==
    envSetFieldsFrom(val, typ, 1, path, envPrefix, structTag, separator, e, reads)

\* loadFromEnv normalises the prefix of the envConfig it is given, in place.
envPrefixNormalised(prefix) ==
    IF prefix # <<>> /\ ~HasSuffix(prefix, <<"_">>) THEN prefix \o <<"_">> ELSE prefix

\* The Loader returned by loadFromEnv(envConf), applied to config; isPtr
\* tells whether config is a pointer.
envLoader(envConf, isPtr, val, typ, e) ==
    IF ~isPtr THEN Walk(val, "ConfigTypeError", <<>>)
    ELSE envSetFields(val, typ, <<>>, envConf.prefix, envConf.structTag, envConf.separator, e,
                      <<>>)

(***************************************************************************)
(* The flag loader.  flag.CommandLine is [formal, actual, errorHandling]:  *)
(* formal maps a registered flag name to the field it is bound to (its     *)
(* index path and shape), actual maps the flags set by Parse to the text   *)
(* they were set from.  The command line after the program name is a       *)
(* sequence of [name, value]: "-name value", or a positional argument when *)
(* name is empty.                                                          *)
(***************************************************************************)
RECURSIVE GetAt(_, _)
\* The value a flag is bound to: the field at path, seen through pointers.
GetAt(v, path) ==
    IF path = <<>> THEN (IF v.k = "ptr" THEN v.elem ELSE v)
    ELSE GetAt((IF v.k = "ptr" THEN v.elem ELSE v).f[Head(path)], Tail(path))

RECURSIVE SetAt(_, _, _)
SetAt(v, path, x) ==
    IF v.k = "ptr" THEN VPtr(SetAt(v.elem, path, x))
    ELSE IF path = <<>> THEN x
    ELSE Put(v, Head(path), SetAt(v.f[Head(path)], Tail(path), x))

Bound(v, err, formal) == [v |-> v, err |-> err, formal |-> formal]

Redefined == "panic: flag redefined"

NotAStruct == "panic: reflect: NumField of non-struct type"

PanicErrs == {Redefined, NotAStruct}

\* flag.Var / flag.DurationVar: registering a name twice panics.
flagVar(v, typ, flagName, path, formal) ==
    IF flagName \in DOMAIN formal THEN Bound(v, Redefined, formal)
    ELSE Bound(v, NoErr, (flagName :> [path |-> path, typ |-> typ]) @@ formal)

\* bindFlag on a settable value.  flag.DurationVar stores its default, 0,
\* into the field when it registers the flag.
bindFlag(v, typ, flagName, path, formal) ==
    CASE typ.kind = "duration" -> flagVar(VDuration(0), typ, flagName, path, formal)
      [] typ.kind \in {"string", "bool", "int", "uint", "float"} ->
            flagVar(v, typ, flagName, path, formal)
      [] typ.kind = "slice" -> flagVar(IF v.nil THEN VSlice(<<>>) ELSE v, typ, flagName, path, formal)
      [] typ.kind = "map" -> flagVar(IF v.nil THEN VMap(EmptyMap) ELSE v, typ, flagName, path, formal)
      [] OTHER -> Bound(v, "UnsupportedTypeError", formal)

\* The text the flag name of a field is derived from, the prefix with its
\* dot, and the flag name.
flagFieldText(field) ==
    IF "flag" \in DOMAIN field.tag /\ field.tag["flag"] # <<>>
    THEN field.tag["flag"]
    ELSE ToLower(field.name)

flagPrefix(name) == IF name # <<>> /\ ~HasSuffix(name, <<".">>) THEN name \o <<".">> ELSE name

flagFieldName(field, name) ==
    flagPrefix(name) \o Join(splitOnWordBoundaries(flagFieldText(field)), <<".">>)

RECURSIVE bindFlags(_, _, _, _, _)
RECURSIVE bindFlagsFrom(_, _, _, _, _, _)

\* A settable field: a struct is walked under flagName, anything else bound.
bindSettable(v, typ, flagName, path, formal) ==
    IF typ.kind = "struct" THEN bindFlags(v, typ, flagName, path, formal)
    ELSE bindFlag(v, typ, flagName, path, formal)

\* The body of the loop of bindFlags for one field, whose value is cur.
bindFlagsBody(cur, field, name, path, formal) ==
    IF field.anon
    THEN IF field.typ.kind = "struct"
         THEN bindFlags(cur, field.typ, <<>>, path, formal)
         ELSE Bound(cur, NotAStruct, formal)
    ELSE IF ~field.exported THEN Bound(cur, NoErr, formal)
    ELSE Reptr(field.typ,
               bindSettable(Elem(cur, field.typ), ElemType(field.typ),
                            flagFieldName(field, name), path, formal))

\* The loop of bindFlags after field i, r the result for that field.
bindFlagsNext(r, val, typ, i, name, path) ==
    IF r.err # NoErr THEN Bound(Put(val, i, r.v), r.err, r.formal)
    ELSE bindFlagsFrom(Put(val, i, r.v), typ, i + 1, name, path, r.formal)

\* The loop of bindFlags from field i on.
bindFlagsFrom(val, typ, i, name, path, formal) ==
    IF i > Len(typ.fields) THEN Bound(val, NoErr, formal)
    ELSE bindFlagsNext(bindFlagsBody(val.f[i], typ.fields[i], name, path \o <<i>>, formal),
                       val, typ, i, name, path)

bindFlags(val, typ, name, path, formal) == bindFlagsFrom(val, typ, 1, name, path, formal)

\* mapValue.Set decodes the text itself before it calls setMapKeysAndValues.
mapValueSet(v, typ, value) ==
    setMapPairs(v, typ, splitPairs(trimAll(SplitN(value, <<",">>, 2))), <<>>,
                "invalid map value")

\* flag.Value.Set of the value registered for a shape: stringValue, boolValue,
\* intValue, uintValue, floatValue, sliceValue, mapValue, and the flag
\* package's own durationValue.
flagValueSet(v, typ, value) ==
    CASE typ.kind = "duration" -> Stored(v, ParseDuration(value))
      [] typ.kind = "string" -> Res(VString(value), NoErr)
      [] typ.kind = "bool" -> Stored(v, ParseBool(value))
      [] typ.kind = "int" -> Stored(v, SetInt(ParseInt(value, typ.bits), typ.bits))
      [] typ.kind = "uint" -> Stored(v, SetUint(ParseUint(value, typ.bits), typ.bits))
      [] typ.kind = "float" -> Stored(v, ParseFloat(value))
      [] typ.kind = "slice" -> setSliceValues(v, typ, Split(value, <<",">>), <<>>)
      [] typ.kind = "map" -> mapValueSet(v, typ, value)
      [] OTHER -> Res(v, "UnsupportedTypeError")

\* What FlagSet.Parse leaves: the config, the flags set, its error.
ParseEnd(v, actual, err) == [v |-> v, actual |-> actual, err |-> err]

RECURSIVE flagParse(_, _, _, _)

\* The rest of Parse after the Set of the first argument's flag gave r.
flagWasSet(r, val, formal, actual, args, path) ==
    IF r.err # NoErr THEN ParseEnd(SetAt(val, path, r.v), actual, "invalid value")
    ELSE flagParse(SetAt(val, path, r.v), formal,
                   (Head(args).name :> Head(args).value) @@ actual, Tail(args))

\* FlagSet.Parse: the arguments in order, up to the first positional one or
\* the first failure.
flagParse(val, formal, actual, args) ==
    IF args = <<>> \/ Head(args).name = <<>> THEN ParseEnd(val, actual, NoErr)
    ELSE IF Head(args).name \notin DOMAIN formal
         THEN ParseEnd(val, actual, "flag provided but not defined")
    ELSE flagWasSet(flagValueSet(GetAt(val, formal[Head(args).name].path),
                                 formal[Head(args).name].typ, Head(args).value),
                    val, formal, actual, args, formal[Head(args).name].path)

\* loadFromFlags(config) under the process's arguments and flag.CommandLine.
\* Gives the config, the error returned (NoErr for nil), the FlagSet, how
\* the call ended: "returned", "panicked" or "exited" (os.Exit by flag.Parse
\* under flag.ExitOnError), and the error of FlagSet.Parse, which flag.Parse
\* does not return.
FlagRun(v, err, fs, ending, parseErr) ==
    [v |-> v, err |-> err, fs |-> fs, ending |-> ending, parseErr |-> parseErr]

\* flag.Parse() done with p, then "return nil".
flagsParsed(p, fs) ==
    FlagRun(p.v, NoErr, [fs EXCEPT !.actual = p.actual],
            IF p.err = NoErr \/ fs.errorHandling = "ContinueOnError" THEN "returned"
            ELSE IF fs.errorHandling = "ExitOnError" THEN "exited"
            ELSE "panicked",
            p.err)

\* bindFlags done with b: its error is returned, else flag.Parse() runs.
flagsBound(b, args, fs) ==
    IF b.err \in PanicErrs
    THEN FlagRun(b.v, b.err, [fs EXCEPT !.formal = b.formal], "panicked", NoErr)
    ELSE IF b.err # NoErr
         THEN FlagRun(b.v, b.err, [fs EXCEPT !.formal = b.formal], "returned", NoErr)
    ELSE flagsParsed(flagParse(b.v, b.formal, fs.actual, args),
                     [fs EXCEPT !.formal = b.formal])

\* args is os.Args without the program name.
loadFromFlags(isPtr, val, typ, args, fs) ==
    IF Len(args) < 1 THEN FlagRun(val, NoErr, fs, "returned", NoErr)
    ELSE IF ~isPtr THEN FlagRun(val, "ConfigTypeError", fs, "returned", NoErr)
    ELSE flagsBound(bindFlags(val, typ, <<>>, <<>>, fs.formal), args, fs)

(***************************************************************************)
(* load.go: options and Load.                                              *)
(*   An option is [opt |-> "UseEnv", envOpts], [opt |-> "UseFlags"] or     *)
(*   [opt |-> "InThisOrder", sources]; an EnvOption is [o, arg].           *)
(*   Every UseEnv(...) shares the one envConfig that defaultEnvConfig      *)
(*   points to.                                                            *)
(***************************************************************************)
Environment == "env"

Flag == "flag"

UseEnv(envOpts) == [opt |-> "UseEnv", envOpts |-> envOpts]

UseFlags == [opt |-> "UseFlags"]

InThisOrder(sources) == [opt |-> "InThisOrder", sources |-> sources]

WithEnvPrefix(prefix) == [o |-> "WithEnvPrefix", arg |-> prefix]

WithEnvStructTag(tag) == [o |-> "WithEnvStructTag", arg |-> tag]

WithEnvSeparator(separator) == [o |-> "WithEnvSeparator", arg |-> separator]

defaultOptionsFlagFirst == <<UseEnv(<<>>), UseFlags, InThisOrder(<<Flag, Environment>>)>>

defaultOptions == <<UseEnv(<<>>), UseFlags, InThisOrder(<<Environment, Flag>>)>>

\* The envConfig that the package variable defaultEnvConfig points to when
\* the process starts.
DefaultEnvConfig == [prefix |-> <<>>, structTag |-> "env", separator |-> <<",">>]

\* An EnvOption applied to the envConfig.
applyEnvOption(envConf, o) ==
    CASE o.o = "WithEnvPrefix" -> [envConf EXCEPT !.prefix = o.arg]
      [] o.o = "WithEnvSeparator" -> [envConf EXCEPT !.separator = o.arg]
      [] o.o = "WithEnvStructTag" -> [envConf EXCEPT !.structTag = o.arg]

RECURSIVE applyEnvOptions(_, _)
applyEnvOptions(envConf, envOpts) ==
    IF envOpts = <<>> THEN envConf
    ELSE applyEnvOptions(applyEnvOption(envConf, Head(envOpts)), Tail(envOpts))

RECURSIVE buildOptions(_, _)
\* The argument list of a Load call being evaluated: each UseEnv(opts...)
\* applies its EnvOptions to the shared envConfig before Load runs.
buildOptions(envConf, opts) ==
    IF opts = <<>> THEN envConf
    ELSE buildOptions(IF Head(opts).opt = "UseEnv"
                      THEN applyEnvOptions(envConf, Head(opts).envOpts)
                      ELSE envConf,
                      Tail(opts))

applyOptionOnce(lc, o) ==
    CASE o.opt = "UseEnv" ->
            [Sources |-> IF Environment \in lc.Loaders THEN lc.Sources
                         ELSE Append(lc.Sources, Environment),
             Loaders |-> lc.Loaders \cup {Environment},
             envConf |-> [lc.envConf EXCEPT !.prefix = envPrefixNormalised(lc.envConf.prefix)]]
      [] o.opt = "UseFlags" ->
            [lc EXCEPT !.Sources = Append(lc.Sources, Flag), !.Loaders = lc.Loaders \cup {Flag}]
      [] o.opt = "InThisOrder" -> [lc EXCEPT !.Sources = o.sources]

\* One LoadOption applied to lc, which is [Sources, Loaders, envConf]:
\* Loaders the set of sources that have a loader, envConf the shared
\* envConfig, whose prefix loadFromEnv normalises when UseEnv is applied.
applyOption(lc, o) ==
    CASE o.opt = "UseEnv" ->
            [Sources |-> Append(lc.Sources, Environment),
             Loaders |-> lc.Loaders \cup {Environment},
             envConf |-> [lc.envConf EXCEPT !.prefix = envPrefixNormalised(lc.envConf.prefix)]]
      [] o.opt = "UseFlags" ->
            [lc EXCEPT !.Sources = Append(lc.Sources, Flag), !.Loaders = lc.Loaders \cup {Flag}]
      [] o.opt = "InThisOrder" -> [lc EXCEPT !.Sources = o.sources]

RECURSIVE applyOptions(_, _)
\* Load's loop "opt(config)".
applyOptions(lc, opts) ==
    IF opts = <<>> THEN lc
    ELSE applyOptions(applyOption(lc, Head(opts)), Tail(opts))

\* The state a Load call threads through its loaders.
Run(v, fs, err, ending, calls, reads, parseErr) ==
    [v |-> v, fs |-> fs, err |-> err, ending |-> ending, calls |-> calls, reads |-> reads,
     parseErr |-> parseErr]

Called(src, err) == [source |-> src, err |-> err]

\* The environment loader called by Load gave w.
envCalled(r, w) ==
    Run(w.v, r.fs, w.err, "returned", Append(r.calls, Called(Environment, w.err)),
        r.reads \o w.reads, r.parseErr)

\* The flag loader called by Load gave f.
flagsCalled(r, f) ==
    Run(f.v, f.fs, f.err, f.ending, Append(r.calls, Called(Flag, f.err)), r.reads, f.parseErr)

\* One iteration of Load's loop over config.Sources: a source without a
\* loader is skipped.
runLoader(r, src, lc, typ, e, args) ==
    IF src \notin lc.Loaders THEN r
    ELSE IF src = Environment THEN envCalled(r, envLoader(lc.envConf, TRUE, r.v, typ, e))
    ELSE flagsCalled(r, loadFromFlags(TRUE, r.v, typ, args, r.fs))

RECURSIVE runLoadersKeepGoing(_, _, _, _, _, _)
runLoadersKeepGoing(r, sources, lc, typ, e, args) ==
    IF sources = <<>> \/ r.ending # "returned" THEN r
    ELSE runLoadersKeepGoing(runLoader(r, Head(sources), lc, typ, e, args), Tail(sources), lc,
                             typ, e, args)

RECURSIVE runLoaders(_, _, _, _, _, _)
\* Load's loop over config.Sources: the first error ends it.
runLoaders(r, sources, lc, typ, e, args) ==
    IF sources = <<>> \/ r.err # NoErr \/ r.ending # "returned" THEN r
    ELSE runLoaders(runLoader(r, Head(sources), lc, typ, e, args), Tail(sources), lc, typ, e,
                    args)

\* Load with its options applied: the loaders' final Run and the LoadConfig.
loadWith(lc, val, typ, e, args, fs) ==
    [run |-> runLoaders(Run(val, fs, NoErr, "returned", <<>>, <<>>, NoErr), lc.Sources, lc, typ,
                        e, args),
     lc |-> lc]

\* Load(&config, opts...), envConf the shared envConfig when it is called.
Load(val, typ, opts, envConf, e, args, fs) ==
    loadWith(applyOptions([Sources |-> <<>>, Loaders |-> {},
                           envConf |-> buildOptions(envConf, opts)],
                          IF Len(opts) = 0 THEN defaultOptions ELSE opts),
             val, typ, e, args, fs)

(***************************************************************************)
(* The processes checked: a configuration struct with its defaults, an     *)
(* environment and a command line.  The structs follow the test structs    *)
(* of the repository (TestConfig, AllSupportedTypes, TestSliceConfig,      *)
(* TestMapConfig, TestNestedConfig, TestEmbeddedConfig, TestPointerConfig, *)
(* TestConfigWithStructTag, UnsupportedStruct); "reload" is a process that  *)
(* calls the library more than once.                                       *)
(***************************************************************************)
MaxArgs == 2

\* The calls a process makes, one after the other.
MaxCalls == 2

Scenarios == {"basic", "kinds", "duration", "slice", "map", "names", "nested", "embedded", "pointer", "tagged", "unsupported", "reload", "deep", "pointees"}

\* The configuration struct of a scenario.
ConfigType(sc) ==
    CASE sc = "basic" ->
            TStruct(<<Fld(<<"H","o","s","t">>, TString), Fld(<<"P","o","r","t">>, TInt(8))>>)
      [] sc = "kinds" ->
            TStruct(<<Fld(<<"S","S","L">>, TBool), Fld(<<"R","a","t","i","o">>, TFloat(32)), Fld(<<"C","o","u","n","t">>, TUint(8)), Unexported(<<"s","e","c","r","e","t">>, TString)>>)
      [] sc = "duration" ->
            TStruct(<<Fld(<<"H","o","s","t">>, TString), Fld(<<"T","i","m","e","o","u","t">>, TDuration)>>)
      [] sc = "slice" ->
            TStruct(<<Fld(<<"H","o","s","t","s">>, TSlice(TString)), Fld(<<"P","o","r","t","s">>, TSlice(TInt(8)))>>)
      [] sc = "map" ->
            TStruct(<<Fld(<<"H","o","s","t","s">>, TMap(TString)), Fld(<<"P","o","r","t","s">>, TMap(TInt(8)))>>)
      [] sc = "names" ->
            TStruct(<<Fld(<<"D","B","H","o","s","t">>, TString), Fld(<<"H","T","T","P","P","o","r","t">>, TInt(8))>>)
      [] sc = "nested" ->
            TStruct(<<Fld(<<"H","o","s","t">>, TString), Fld(<<"D","B">>, TStruct(<<Fld(<<"H","o","s","t">>, TString), Fld(<<"P","o","r","t">>, TInt(8))>>)), Fld(<<"N","a","m","e">>, TString)>>)
      [] sc = "embedded" ->
            TStruct(<<Embedded(<<"T","e","s","t","C","o","n","f","i","g">>, TStruct(<<Fld(<<"H","o","s","t">>, TString), Fld(<<"H","o","s","t","s">>, TSlice(TString))>>))>>)
      [] sc = "pointer" ->
            TStruct(<<Fld(<<"H","o","s","t">>, TPtr(TString)), Fld(<<"D","B">>, TPtr(TStruct(<<Fld(<<"P","o","r","t">>, TInt(8))>>)))>>)
      [] sc = "tagged" ->
            TStruct(<<Tagged(<<"N","o","t","H","o","s","t">>, "env" :> <<"H","o","S","t">> @@ "flag" :> <<"h","o","s","t">>, TString),
                     Tagged(<<"H","T","T","P","P","o","r","t">>, "env" :> <<" ","P","O","R","T",",","o","m","i","t","e","m","p","t","y">> @@ "mytag" :> <<"P","o","r","t">>, TInt(8))>>)
      [] sc = "unsupported" ->
            TStruct(<<Fld(<<"H","o","s","t">>, TString), Fld(<<"U","n","s","u","p","p","o","r","t","e","d">>, TChan)>>)
      [] sc = "reload" ->
            TStruct(<<Fld(<<"H","o","s","t">>, TString)>>)
      [] sc = "pointees" ->
            TStruct(<<Fld(<<"P","o","r","t","s">>, TSlice(TPtr(TInt(8)))), Fld(<<"L","i","m","i","t","s">>, TMap(TPtr(TInt(8))))>>)
      [] sc = "deep" ->
            TStruct(<<Fld(<<"D","B">>, TStruct(<<Embedded(<<"C","o","m","m","o","n">>, TStruct(<<Fld(<<"H","o","s","t">>, TString)>>)), Fld(<<"P","o","r","t">>, TInt(8))>>))>>)

\* The default configs a caller passes: the zero value, or one carrying defaults.
Defaults(sc) ==
    {Zero(ConfigType(sc))} \cup
    (CASE sc = "basic" -> {VStruct(<<VString(<<"d">>), VInt(9)>>)}
       [] sc = "kinds" -> {VStruct(<<VBool(TRUE), VFloat(25, 1), VUint(3), VString(<<"s">>)>>)}
       [] sc = "duration" -> {VStruct(<<VString(<<"d">>), VDuration(5)>>)}
       [] sc = "slice" -> {VStruct(<<VSlice(<<VString(<<"d">>)>>), VSlice(<<VInt(9)>>)>>)}
       [] sc = "map" -> {VStruct(<<VMap(<<"a">> :> VString(<<"0">>) @@ <<"k">> :> VString(<<"0">>)), VMap(<<"p">> :> VInt(9))>>)}
       [] sc = "names" -> {}
       [] sc = "nested" -> {}
       [] sc = "embedded" -> {VStruct(<<VStruct(<<VString(<<"d">>), VSlice(<<VString(<<"d">>)>>)>>)>>)}
       [] sc = "pointer" -> {VStruct(<<VPtr(VString(<<"d">>)), VPtr(VStruct(<<VInt(9)>>))>>)}
       [] sc = "tagged" -> {}
       [] sc = "unsupported" -> {}
       [] sc = "reload" -> {VStruct(<<VString(<<"d">>)>>)}
       [] sc = "deep" -> {}
       [] sc = "pointees" -> {})

\* The process environments of a scenario; the empty text is an unset variable.
EnvChoices(sc) ==
    CASE sc = "basic" ->
        {(<<"H","O","S","T">> :> v1) @@ (<<"P","O","R","T">> :> v2) @@ (<<"T","E","S","T","_","H","O","S","T">> :> v3) :
          v1 \in {<<>>, <<"a">>}, v2 \in {<<>>, <<"7">>}, v3 \in {<<"c">>}}
      [] sc = "kinds" ->
        {(<<"S","S","L">> :> v1) @@ (<<"R","A","T","I","O">> :> v2) @@ (<<"C","O","U","N","T">> :> v3) @@ (<<"S","E","C","R","E","T">> :> v4) :
          v1 \in {<<>>, <<"t">>, <<"0">>, <<"n","o">>}, v2 \in {<<>>, <<"1",".","5","0">>, <<"x">>}, v3 \in {<<>>, <<"3","0","0">>}, v4 \in {<<"z">>}}
      [] sc = "duration" ->
        {(<<"H","O","S","T">> :> v1) @@ (<<"T","I","M","E","O","U","T">> :> v2) :
          v1 \in {<<>>, <<"a">>}, v2 \in {<<>>, <<"1","3","s">>, <<"x">>}}
      [] sc = "slice" ->
        {(<<"H","O","S","T","S">> :> v1) @@ (<<"P","O","R","T","S">> :> v2) :
          v1 \in {<<>>, <<"a",",","b">>}, v2 \in {<<>>, <<"1",",","2">>, <<"1",",","x">>}}
      [] sc = "map" ->
        {(<<"H","O","S","T","S">> :> v1) @@ (<<"P","O","R","T","S">> :> v2) :
          v1 \in {<<>>, <<"a","=","1",",","b","=","2">>, <<"a","=","1",",","a","=","2">>, <<"a">>, <<"k","=","b","=","c">>}, v2 \in {<<>>, <<"p","=","1">>}}
      [] sc = "names" ->
        {(<<"D","B","_","H","O","S","T">> :> v1) @@ (<<"H","T","T","P","_","P","O","R","T">> :> v2) :
          v1 \in {<<>>, <<"a">>}, v2 \in {<<>>, <<"7">>}}
      [] sc = "nested" ->
        {(<<"H","O","S","T">> :> v1) @@ (<<"D","B","_","H","O","S","T">> :> v2) @@ (<<"T","E","S","T","_","D","B","_","P","O","R","T">> :> v3) @@ (<<"D","B">> :> v4) @@ (<<"N","A","M","E">> :> v5) :
          v1 \in {<<>>, <<"a">>}, v2 \in {<<>>, <<"b">>}, v3 \in {<<"5">>}, v4 \in {<<>>, <<"x">>}, v5 \in {<<"n">>}}
      [] sc = "embedded" ->
        {(<<"H","O","S","T">> :> v1) @@ (<<"H","O","S","T","S">> :> v2) @@ (<<"T","E","S","T","_","C","O","N","F","I","G","_","H","O","S","T">> :> v3) @@ (<<"T","E","S","T","_","C","O","N","F","I","G","_","H","O","S","T","S">> :> v4) :
          v1 \in {<<>>, <<"a">>}, v2 \in {<<"a",",","b">>}, v3 \in {<<>>, <<"e">>}, v4 \in {<<>>, <<"z">>}}
      [] sc = "pointer" ->
        {(<<"H","O","S","T">> :> v1) @@ (<<"D","B","_","P","O","R","T">> :> v2) @@ (<<"D","B">> :> v3) :
          v1 \in {<<>>, <<"a">>}, v2 \in {<<>>, <<"5">>}, v3 \in {<<>>, <<"x">>}}
      [] sc = "tagged" ->
        {(<<"H","O","S","T">> :> v1) @@ (<<"H","O","_","S","T">> :> v2) @@ (<<"P","O","R","T">> :> v3) @@ (<<"N","O","T","_","H","O","S","T">> :> v4) :
          v1 \in {<<>>, <<"a">>}, v2 \in {<<>>, <<"b">>}, v3 \in {<<>>, <<"7">>}, v4 \in {<<"c">>}}
      [] sc = "unsupported" ->
        {(<<"H","O","S","T">> :> v1) @@ (<<"U","N","S","U","P","P","O","R","T","E","D">> :> v2) :
          v1 \in {<<>>, <<"a">>}, v2 \in {<<>>, <<"u">>}}
      [] sc = "reload" ->
        {(<<"H","O","S","T">> :> v1) @@ (<<"T","E","S","T","_","H","O","S","T">> :> v2) :
          v1 \in {<<>>, <<"a">>}, v2 \in {<<"c">>}}
      [] sc = "deep" ->
        {(<<"D","B","_","H","O","S","T">> :> v1) @@ (<<"D","B","_","P","O","R","T">> :> v2) :
          v1 \in {<<>>, <<"a">>}, v2 \in {<<>>, <<"5">>}}
      [] sc = "pointees" ->
        {(<<"P","O","R","T","S">> :> v1) @@ (<<"L","I","M","I","T","S">> :> v2) :
          v1 \in {<<>>, <<"1",",","2">>}, v2 \in {<<>>, <<"a","=","1">>}}

Arg(name, value) == [name |-> name, value |-> value]

\* The "-name value" arguments a command line of a scenario is made of.
FlagPairs(sc) ==
    CASE sc = "basic" ->
        {Arg(<<"h","o","s","t">>, <<"b">>),
         Arg(<<"p","o","r","t">>, <<"8">>),
         Arg(<<"p","o","r","t">>, <<"x">>)}
      [] sc = "kinds" ->
        {Arg(<<"s","s","l">>, <<"f","a","l","s","e">>),
         Arg(<<"c","o","u","n","t">>, <<"7">>),
         Arg(<<"c","o","u","n","t">>, <<"3","0","0">>)}
      [] sc = "duration" ->
        {Arg(<<"h","o","s","t">>, <<"b">>),
         Arg(<<"t","i","m","e","o","u","t">>, <<"2","m">>)}
      [] sc = "slice" ->
        {Arg(<<"h","o","s","t","s">>, <<"c",",","d">>),
         Arg(<<"p","o","r","t","s">>, <<"3">>),
         Arg(<<"p","o","r","t","s">>, <<"4",",","y">>)}
      [] sc = "map" ->
        {Arg(<<"h","o","s","t","s">>, <<"b","=","3">>),
         Arg(<<"h","o","s","t","s">>, <<"c","=","1",",","d","=","2",",","e","=","3">>),
         Arg(<<"h","o","s","t","s">>, <<"c","=","1",",","d","=","2",",","e">>)}
      [] sc = "names" ->
        {Arg(<<"d","b","h","o","s","t">>, <<"b">>),
         Arg(<<"d","b",".","h","o","s","t">>, <<"c">>),
         Arg(<<"h","t","t","p","p","o","r","t">>, <<"8">>)}
      [] sc = "nested" ->
        {Arg(<<"d","b",".","h","o","s","t">>, <<"d">>),
         Arg(<<"d","b",".","p","o","r","t">>, <<"6">>)}
      [] sc = "embedded" ->
        {Arg(<<"h","o","s","t">>, <<"b">>),
         Arg(<<"h","o","s","t","s">>, <<"c">>)}
      [] sc = "pointer" ->
        {Arg(<<"h","o","s","t">>, <<"b">>),
         Arg(<<"d","b",".","p","o","r","t">>, <<"6">>)}
      [] sc = "tagged" ->
        {Arg(<<"h","o","s","t">>, <<"b">>),
         Arg(<<"h","t","t","p","p","o","r","t">>, <<"8">>)}
      [] sc = "unsupported" ->
        {Arg(<<"h","o","s","t">>, <<"b">>),
         Arg(<<"u","n","s","u","p","p","o","r","t","e","d">>, <<"u">>)}
      [] sc = "reload" ->
        {Arg(<<"h","o","s","t">>, <<"b">>)}
      [] sc = "pointees" ->
        {Arg(<<"p","o","r","t","s">>, <<"3">>),
         Arg(<<"l","i","m","i","t","s">>, <<"b","=","4">>)}
      [] sc = "deep" ->
        {Arg(<<"h","o","s","t">>, <<"b">>),
         Arg(<<"d","b",".","h","o","s","t">>, <<"c">>),
         Arg(<<"d","b",".","p","o","r","t">>, <<"6">>)}

\* flag.CommandLine's error handling: ExitOnError unless the caller replaced it.
ErrorHandlings(sc) ==
    IF sc \in {"basic"} THEN {"ExitOnError", "ContinueOnError"} ELSE {"ExitOnError"}

\* How many calls the process of a scenario makes.
Calls(sc) == IF sc = "reload" THEN MaxCalls ELSE 1

\* The command lines: up to MaxArgs "-name value" arguments.
ArgLists(sc) == UNION {[1..n -> FlagPairs(sc)] : n \in 0..MaxArgs}

\* The option lists a caller passes to Load.
OptionLists ==
    {<<UseEnv(<<>>)>>,
     <<UseFlags>>,
     <<UseFlags, UseEnv(<<>>)>>,
     <<UseEnv(<<>>), UseEnv(<<>>)>>,
     <<InThisOrder(<<Flag, Environment>>)>>,
     <<UseEnv(<<WithEnvPrefix(<<"T","E","S","T">>)>>)>>,
     <<UseEnv(<<WithEnvStructTag("mytag"), WithEnvSeparator(<<"|">>)>>), UseEnv(<<>>)>>,
     <<UseEnv(<<>>), UseFlags, InThisOrder(<<"file", Flag, Environment>>)>>}

EnvConf(prefix, structTag, separator) ==
    [prefix |-> prefix, structTag |-> structTag, separator |-> separator]

\* The envConfigs a direct call of loadFromEnv is given.
TestEnvConfs ==
    {EnvConf(<<>>, "", <<",">>),
     EnvConf(<<"T","E","S","T">>, "", <<",">>),
     EnvConf(<<"T","E","S","T","_">>, "", <<",">>),
     EnvConf(<<"a","p","p">>, "env", <<",">>),
     EnvConf(<<>>, "mytag", <<",">>)}

(***************************************************************************)
(* The state.                                                              *)
(*   scen              which configuration struct the process uses         *)
(*   cfg               the caller's configuration struct                   *)
(*   env, args         the process environment and command line            *)
(*   fs                flag.CommandLine                                    *)
(*   defaultEnvConfig  the package variable of that name                   *)
(*   status            "idle" before the first call, then how the last     *)
(*                     call ended                                          *)
(*   made              the number of calls made                            *)
(*   split             a call of splitOnWordBoundaries on its own: the     *)
(*                     string, whether the call was made, the tokens       *)
(*   last              the last call made: its inputs, the loaders it invoked   *)
(*                     with their errors, the variables it read, what it   *)
(*                     returned                                            *)
(***************************************************************************)
VARIABLES scen, cfg, env, args, fs, defaultEnvConfig, status, made, last, split

vars == <<scen, cfg, env, args, fs, defaultEnvConfig, status, made, last, split>>

NoFlags == [name \in {} |-> <<>>]

NoSplit == [s |-> <<>>, called |-> FALSE, tokens |-> <<>>]

NoCall ==
    [op |-> "none", isPtr |-> TRUE, opts |-> <<>>, pre |-> VStruct(<<>>),
     configured |-> [prefix |-> <<>>, structTag |-> "", separator |-> <<>>],
     envConf |-> [prefix |-> <<>>, structTag |-> "", separator |-> <<>>],
     sources |-> <<>>, loaders |-> {}, calls |-> <<>>, reads |-> <<>>,
     err |-> NoErr, retNil |-> FALSE, parseErr |-> NoErr]

Init ==
    /\ scen \in Scenarios
    /\ cfg \in Defaults(scen)
    /\ env \in EnvChoices(scen)
    /\ args \in ArgLists(scen)
    /\ fs \in [formal : {NoFlags}, actual : {NoFlags}, errorHandling : ErrorHandlings(scen)]
    /\ defaultEnvConfig = DefaultEnvConfig
    /\ status = "idle"
    /\ made = 0
    /\ last = NoCall
    /\ split = NoSplit

\* The process is running and has a call left to make.
CanCall == status \in {"idle", "returned"} /\ made < Calls(scen)

\* Load returns l.run to its caller; with an error the config returned is nil.
LoadReturns(l, opts) ==
    /\ cfg' = l.run.v
    /\ fs' = l.run.fs
    /\ defaultEnvConfig' = l.lc.envConf
    /\ status' = l.run.ending
    /\ made' = made + 1
    /\ last' = [op |-> "Load", isPtr |-> TRUE, opts |-> opts, pre |-> cfg,
                configured |-> buildOptions(defaultEnvConfig, opts), envConf |-> l.lc.envConf,
                sources |-> l.lc.Sources, loaders |-> l.lc.Loaders,
                calls |-> l.run.calls, reads |-> l.run.reads, err |-> l.run.err,
                retNil |-> (l.run.err # NoErr), parseErr |-> l.run.parseErr]
    /\ UNCHANGED <<scen, env, args, split>>

\* Load(&cfg, opts...)
DoLoad(opts) ==
    /\ CanCall
    /\ LoadReturns(Load(cfg, ConfigType(scen), opts, defaultEnvConfig, env, args, fs), opts)

LoadDefault == DoLoad(<<>>)

LoadWithOptions == \E opts \in OptionLists : DoLoad(opts)

\* The loader of loadFromEnv(envConf) returns w.
EnvReturns(w, envConf, conf, shared, isPtr) ==
    /\ cfg' = w.v
    /\ defaultEnvConfig' = IF shared THEN conf ELSE defaultEnvConfig
    /\ status' = "returned"
    /\ made' = made + 1
    /\ last' = [op |-> "loadFromEnv", isPtr |-> isPtr, opts |-> <<>>, pre |-> cfg,
                configured |-> envConf, envConf |-> conf,
                sources |-> <<Environment>>, loaders |-> {Environment},
                calls |-> <<Called(Environment, w.err)>>, reads |-> w.reads,
                err |-> w.err, retNil |-> FALSE, parseErr |-> NoErr]
    /\ UNCHANGED <<scen, env, args, fs, split>>

\* loadFromEnv(envConf)(config), conf the envConfig normalised in place.
DoLoadFromEnv(envConf, conf, shared, isPtr) ==
    /\ CanCall
    /\ EnvReturns(envLoader(conf, isPtr, cfg, ConfigType(scen), env), envConf, conf, shared, isPtr)

\* loadFromEnv(envConf)(&cfg) with an envConfig of the caller's
CallLoadFromEnv ==
    \E envConf \in TestEnvConfs :
        DoLoadFromEnv(envConf, [envConf EXCEPT !.prefix = envPrefixNormalised(envConf.prefix)],
                      FALSE, TRUE)

\* loadFromEnv(nil)(cfg): the config passed by value
CallLoadFromEnvNonPointer ==
    DoLoadFromEnv(defaultEnvConfig,
                  [defaultEnvConfig EXCEPT !.prefix = envPrefixNormalised(defaultEnvConfig.prefix)],
                  TRUE, FALSE)

\* loadFromFlags returns f.
FlagsReturn(f, isPtr) ==
    /\ cfg' = f.v
    /\ fs' = f.fs
    /\ status' = f.ending
    /\ made' = made + 1
    /\ last' = [op |-> "loadFromFlags", isPtr |-> isPtr, opts |-> <<>>, pre |-> cfg,
                configured |-> NoCall.configured, envConf |-> NoCall.envConf,
                sources |-> <<Flag>>, loaders |-> {Flag},
                calls |-> <<Called(Flag, f.err)>>, reads |-> <<>>,
                err |-> f.err, retNil |-> FALSE, parseErr |-> f.parseErr]
    /\ UNCHANGED <<scen, env, args, defaultEnvConfig, split>>

\* loadFromFlags(&cfg), or loadFromFlags(cfg) when isPtr is FALSE
CallLoadFromFlags ==
    \E isPtr \in BOOLEAN :
        /\ CanCall
        /\ FlagsReturn(loadFromFlags(isPtr, cfg, ConfigType(scen), args, fs), isPtr)

Next ==
    \/ LoadDefault
    \/ LoadWithOptions
    \/ CallLoadFromEnv
    \/ CallLoadFromEnvNonPointer
    \/ CallLoadFromFlags

Spec == Init /\ [][Next]_vars

(***************************************************************************)
(* splitOnWordBoundaries called on its own, on every string of up to       *)
(* MaxWord characters over upper-case and lower-case letters and a digit.  *)
(***************************************************************************)
MaxWord == 4

WordChars == {"A", "B", "a", "b", "1"}

Words == UNION {[1..n -> WordChars] : n \in 0..MaxWord}

SplitInit ==
    /\ split \in [s : Words, called : {FALSE}, tokens : {<<>>}]
    /\ scen = "basic"
    /\ cfg = Zero(ConfigType("basic"))
    /\ env = [name \in {} |-> <<>>]
    /\ args = <<>>
    /\ fs = [formal |-> NoFlags, actual |-> NoFlags, errorHandling |-> "ExitOnError"]
    /\ defaultEnvConfig = DefaultEnvConfig
    /\ status = "idle"
    /\ made = 0
    /\ last = NoCall

\* splitOnWordBoundaries(split.s)
CallSplitOnWordBoundaries ==
    /\ ~split.called
    /\ split' = [split EXCEPT !.called = TRUE, !.tokens = splitOnWordBoundaries(split.s)]
    /\ UNCHANGED <<scen, cfg, env, args, fs, defaultEnvConfig, status, made, last>>

SplitNext == CallSplitOnWordBoundaries

SplitSpec == SplitInit /\ [][SplitNext]_vars

(***************************************************************************)
(* The properties checked.                                                 *)
(***************************************************************************)
(***************************************************************************)
(* The fields of the configuration struct, as the claims speak of them.    *)
(***************************************************************************)
ScalarKinds == {"string", "bool", "int", "uint", "float"}

RECURSIVE FieldsOf(_, _, _)
\* Every exported field of a struct shape at any depth: its index path, the
\* field, and the fields that enclose it, outermost first.
FieldsOf(typ, path, via) ==
    UNION {{[path |-> path \o <<i>>, field |-> typ.fields[i], via |-> via]}
           \cup (IF ElemType(typ.fields[i].typ).kind = "struct"
                 THEN FieldsOf(ElemType(typ.fields[i].typ), path \o <<i>>,
                               Append(via, typ.fields[i]))
                 ELSE {})
           : i \in {j \in DOMAIN typ.fields : typ.fields[j].exported}}

AllFields == FieldsOf(ConfigType(scen), <<>>, <<>>)

FieldAt(path) == CHOOSE f \in AllFields : f.path = path

\* The shape of the value a field holds, seen through a pointer.
Shape(f) == ElemType(f.field.typ)

UnderEmbedded(f) == \E i \in DOMAIN f.via : f.via[i].anon

RECURSIVE HasAt(_, _)
\* Whether the field at path exists in v: no nil pointer on the way to it.
HasAt(v, path) ==
    IF v.k = "ptr" THEN ~v.nil /\ HasAt(v.elem, path)
    ELSE path = <<>> \/ HasAt(v.f[Head(path)], Tail(path))

\* The env loader ran on a pointer to the config, and no other loader did.
EnvLoaderRan ==
    /\ status = "returned"
    /\ last.op \in {"loadFromEnv", "Load"}
    /\ last.isPtr
    /\ last.calls # <<>>
    /\ \A i \in DOMAIN last.calls : last.calls[i].source = Environment

\* loadFromFlags(&cfg) ran with at least two process arguments and returned.
FlagLoaderRan ==
    /\ status = "returned"
    /\ last.op = "loadFromFlags"
    /\ last.isPtr
    /\ Len(args) >= 1

\* Load(&cfg) with no options returned without an error and with every
\* command-line flag parsed.
DefaultLoadDone ==
    /\ status = "returned"
    /\ last.op = "Load"
    /\ last.opts = <<>>
    /\ last.err = NoErr
    /\ last.parseErr = NoErr

\* The texts read from the environment for the field at path, in order.
RECURSIVE EnvTexts(_, _)
EnvTexts(reads, path) ==
    IF reads = <<>> THEN <<>>
    ELSE (IF Head(reads).path = path /\ Head(reads).value # <<>>
          THEN <<Head(reads).value>> ELSE <<>>) \o EnvTexts(Tail(reads), path)

\* The texts given on the command line for the field at path, in order.
RECURSIVE FlagTexts(_, _, _)
FlagTexts(as, formal, path) ==
    IF as = <<>> THEN <<>>
    ELSE (IF Head(as).name \in DOMAIN formal /\ formal[Head(as).name].path = path
          THEN <<Head(as).value>> ELSE <<>>) \o FlagTexts(Tail(as), formal, path)

\* C1: Load with no options runs the Environment loader and then the Flag
\* loader, and every scalar field (string, bool, integer, float) that has a
\* non-empty environment variable and a flag set on the command line ends
\* with the value the flag gives.
C1_FlagOverridesEnv ==
    (status = "returned" /\ last.op = "Load" /\ last.opts = <<>> /\ last.err = NoErr) =>
        /\ [i \in DOMAIN last.calls |-> last.calls[i].source] = <<Environment, Flag>>
        /\ \A n \in DOMAIN fs.actual :
              (/\ fs.formal[n].typ.kind \in ScalarKinds
               /\ EnvTexts(last.reads, fs.formal[n].path) # <<>>)
              => GetAt(cfg, fs.formal[n].path)
                   = flagValueSet(Zero(fs.formal[n].typ), fs.formal[n].typ, fs.actual[n]).v

\* C1 witness: a default Load returned with a scalar field for which the
\* environment gave one value and the command line another, the field holding
\* the command line's.
C1_Witness ==
    /\ status = "returned" /\ last.op = "Load" /\ last.opts = <<>> /\ last.err = NoErr
    /\ \E n \in DOMAIN fs.actual :
          /\ fs.formal[n].typ.kind \in ScalarKinds
          /\ EnvTexts(last.reads, fs.formal[n].path) # <<>>
          /\ setField(Zero(fs.formal[n].typ), fs.formal[n].typ,
                      EnvTexts(last.reads, fs.formal[n].path)[1], <<",">>).v
               # GetAt(cfg, fs.formal[n].path)

SameContent(a, b) ==
    IF a.k = "slice" THEN b.k = "slice" /\ a.elems = b.elems
    ELSE IF a.k = "map" THEN b.k = "map" /\ a.m = b.m
    ELSE a = b

\* C3: after the flag loader ran with at least two process arguments, every
\* field of a supported shape (durations included) whose flag does not
\* appear on the command line has the value it had before the load.
C3_FlagAbsentKeeps ==
    FlagLoaderRan =>
        \A f \in AllFields :
            (/\ Shape(f).kind \in ScalarKinds \cup {"duration", "slice", "map"}
             /\ HasAt(last.pre, f.path)
             /\ FlagTexts(args, fs.formal, f.path) = <<>>)
            => SameContent(GetAt(cfg, f.path), GetAt(last.pre, f.path))

\* The elements a slice of shape typ takes from texts, each text split at sep.
RECURSIVE ElemsFrom(_, _, _, _)
ElemsFrom(typ, texts, sep, elemSep) ==
    IF texts = <<>> THEN <<>>
    ELSE [i \in DOMAIN Split(Head(texts), sep) |->
            setField(Zero(typ.elem), typ.elem, Split(Head(texts), sep)[i], elemSep).v]
         \o ElemsFrom(typ, Tail(texts), sep, elemSep)

EntriesOf(typ, pairs, sep) ==
    [i \in DOMAIN pairs |->
        [key |-> pairs[i][1], value |-> setField(Zero(typ.elem), typ.elem, pairs[i][2], sep).v]]

RECURSIVE EnvEntries(_, _, _)
EnvEntries(typ, texts, sep) ==
    IF texts = <<>> THEN <<>>
    ELSE EntriesOf(typ, splitPairs(Split(Head(texts), sep)), sep)
         \o EnvEntries(typ, Tail(texts), sep)

RECURSIVE FlagEntries(_, _)
FlagEntries(typ, texts) ==
    IF texts = <<>> THEN <<>>
    ELSE EntriesOf(typ, splitPairs(trimAll(SplitN(Head(texts), <<",">>, 2))), <<>>)
         \o FlagEntries(typ, Tail(texts))

\* The entries the sources of the last call wrote to the map field f, the
\* environment's before the command line's.
Written(f) ==
    EnvEntries(f.field.typ, EnvTexts(last.reads, f.path), last.envConf.separator)
    \o FlagEntries(f.field.typ, FlagTexts(args, fs.formal, f.path))

RECURSIVE WithLoader(_, _)
WithLoader(sources, loaders) ==
    IF sources = <<>> THEN <<>>
    ELSE (IF Head(sources) \in loaders THEN <<Head(sources)>> ELSE <<>>)
         \o WithLoader(Tail(sources), loaders)

CalledSources == [i \in DOMAIN last.calls |-> last.calls[i].source]

\* C6: Load invokes the loaders in the order of Sources; every loader before
\* the last one invoked returned nil; when a loader returns an error no later
\* loader is invoked and Load returns that error with a nil config; without
\* an error every loader is invoked and the config is returned.
C6_StopsAtFirstError ==
    (status = "returned" /\ last.op = "Load") =>
        /\ Len(CalledSources) <= Len(WithLoader(last.sources, last.loaders))
        /\ CalledSources = SubSeq(WithLoader(last.sources, last.loaders), 1, Len(CalledSources))
        /\ \A i \in DOMAIN last.calls : i < Len(last.calls) => last.calls[i].err = NoErr
        /\ last.err = NoErr =>
              /\ CalledSources = WithLoader(last.sources, last.loaders)
              /\ \A i \in DOMAIN last.calls : last.calls[i].err = NoErr
              /\ ~last.retNil
        /\ last.err # NoErr =>
              /\ last.calls # <<>>
              /\ last.calls[Len(last.calls)].err = last.err
              /\ last.retNil

\* C6 witness: a Load whose first loader returned an error, with a loader
\* after it in Sources that was not invoked.
C6_Witness ==
    /\ status = "returned"
    /\ last.op = "Load"
    /\ last.err # NoErr
    /\ Len(last.calls) = 1
    /\ Len(WithLoader(last.sources, last.loaders)) = 2

\* C7: a loader given a config that is not a pointer returns ConfigTypeError,
\* whatever the environment and the process arguments.
C7_NonPointerRejected ==
    (status # "idle" /\ ~last.isPtr) => last.err = "ConfigTypeError"

\* The name segment of the claims: the tag text of the configured tag key if
\* the field has one, else the identifier, split at word boundaries and
\* joined with sep.
Segment(field, structTag, sep) ==
    Join(splitOnWordBoundaries(envFieldText(field, structTag)), sep)

\* The segments of the enclosing fields that are not embedded, each followed
\* by sep.
RECURSIVE Enclosing(_, _, _)
Enclosing(via, structTag, sep) ==
    IF via = <<>> THEN <<>>
    ELSE (IF Head(via).anon THEN <<>> ELSE Segment(Head(via), structTag, sep) \o sep)
         \o Enclosing(Tail(via), structTag, sep)

\* The variable name of C8 for the field f under the envConfig conf.
EnvName(f, conf) ==
    ToUpper((IF conf.prefix # <<>> /\ conf.prefix[Len(conf.prefix)] # "_"
             THEN conf.prefix \o <<"_">> ELSE conf.prefix)
            \o Enclosing(f.via, conf.structTag, <<"_">>)
            \o Segment(f.field, conf.structTag, <<"_">>))

\* C8: every variable the environment loader reads for a field is named by
\* the upper-cased prefix (one '_' appended if it is non-empty and has none),
\* the segments of the enclosing non-embedded struct fields each followed by
\* '_', and the field's own segment.
C8_EnvNaming ==
    EnvLoaderRan =>
        \A i \in DOMAIN last.reads :
            last.reads[i].name = EnvName(FieldAt(last.reads[i].path), last.configured)

\* The flag name of C9 for the field f: the words of each enclosing field and
\* of the field, lower-cased, all joined with '.'.
FlagName(f) ==
    ToLower(Enclosing(f.via, "", <<".">>) \o Segment(f.field, "", <<".">>))

\* C9: the flag registered for a field without a flag tag is its identifier
\* split at word boundaries, lower-cased and joined with '.', after the
\* dot-joined path of the enclosing struct fields.
C9_FlagNaming ==
    (FlagLoaderRan /\ last.err = NoErr) =>
        \A n \in DOMAIN fs.formal :
            (/\ "flag" \notin DOMAIN FieldAt(fs.formal[n].path).field.tag
             /\ \A i \in DOMAIN FieldAt(fs.formal[n].path).via :
                   "flag" \notin DOMAIN FieldAt(fs.formal[n].path).via[i].tag)
            => n = FlagName(FieldAt(fs.formal[n].path))

\* C10: for a field with the configured tag, the variable read is the
\* upper-cased tag text itself (after the prefix and the enclosing
\* segments), with no character inserted.
C10_TagVerbatim ==
    EnvLoaderRan =>
        \A i \in DOMAIN last.reads :
            (/\ last.configured.structTag # ""
             /\ last.configured.structTag \in DOMAIN FieldAt(last.reads[i].path).field.tag
             /\ ~UnderEmbedded(FieldAt(last.reads[i].path)))
            => last.reads[i].name
                 = ToUpper((IF last.configured.prefix # <<>>
                               /\ last.configured.prefix[Len(last.configured.prefix)] # "_"
                            THEN last.configured.prefix \o <<"_">> ELSE last.configured.prefix)
                           \o Enclosing(FieldAt(last.reads[i].path).via,
                                        last.configured.structTag, <<"_">>)
                           \o envFieldText(FieldAt(last.reads[i].path).field,
                                           last.configured.structTag))

\* C11: Load(&cfg, InThisOrder(Flag, Environment)) with no other option
\* invokes both loaders, the flag loader first and the environment loader
\* second.
C11_FlagThenEnv ==
    (/\ status # "idle"
     /\ last.op = "Load"
     /\ last.opts = <<InThisOrder(<<Flag, Environment>>)>>)
    => CalledSources = <<Flag, Environment>>

\* The number of os.Getenv calls made for the field at path.
ReadCount(reads, path) == Cardinality({i \in DOMAIN reads : reads[i].path = path})

\* C12: the environment loader visits the fields of an embedded struct once,
\* under the parent's prefix: each such field is read once, under the name
\* that has no segment for the embedded struct, and a slice among them holds
\* its elements followed by the elements of that one variable.
C12_EmbeddedOnce ==
    (EnvLoaderRan /\ last.err = NoErr) =>
        \A f \in AllFields :
            UnderEmbedded(f) =>
                /\ ReadCount(last.reads, f.path) = 1
                /\ \A i \in DOMAIN last.reads :
                      last.reads[i].path = f.path
                      => last.reads[i].name = EnvName(f, last.configured)
                /\ (f.field.typ.kind = "slice" /\ HasAt(last.pre, f.path)) =>
                      GetAt(cfg, f.path).elems
                        = GetAt(last.pre, f.path).elems
                          \o ElemsFrom(f.field.typ,
                                       IF Getenv(env, EnvName(f, last.configured)) = <<>>
                                       THEN <<>>
                                       ELSE <<Getenv(env, EnvName(f, last.configured))>>,
                                       last.envConf.separator, last.envConf.separator)

\* The EnvOptions of the last UseEnv of an option list, <<>> without one.
RECURSIVE LastUseEnv(_)
LastUseEnv(opts) ==
    IF opts = <<>> THEN <<>>
    ELSE IF opts[Len(opts)].opt = "UseEnv" THEN opts[Len(opts)].envOpts
    ELSE LastUseEnv(SubSeq(opts, 1, Len(opts) - 1))

\* The last call was a Load whose environment loader came from UseEnv()
\* with no options: Load with no options, or an option list whose last
\* UseEnv has none.
PlainEnvLoad ==
    /\ status # "idle"
    /\ last.op = "Load"
    /\ LastUseEnv(last.opts) = <<>>
    /\ \E i \in DOMAIN last.calls : last.calls[i].source = Environment

\* C13: whatever UseEnv(...) calls came before, a Load whose environment
\* loader comes from UseEnv() with no options (or from no option at all)
\* uses the default environment configuration: no prefix, tag 'env',
\* separator ','.
C13_EnvOptionsDoNotLeak ==
    PlainEnvLoad => last.envConf = DefaultEnvConfig

\* C14: when a Load that invoked the flag loader with at least two process
\* arguments has returned, a second Load that invokes the flag loader
\* returns too.
C14_LoadTwice ==
    [][(/\ status = "returned"
        /\ last.op = "Load"
        /\ Len(args) >= 1
        /\ \E i \in DOMAIN last.calls : last.calls[i].source = Flag
        /\ made' = made + 1
        /\ last'.op = "Load"
        /\ \E i \in DOMAIN last'.calls : last'.calls[i].source = Flag)
       => status' = "returned"]_vars

\* C15: Load with no options on a struct that has a settable field of an
\* unsupported shape returns UnsupportedTypeError, whatever the environment
\* and the command line.
C15_UnsupportedRejected ==
    (/\ status # "idle"
     /\ last.op = "Load"
     /\ last.opts = <<>>
     /\ \E f \in AllFields : Shape(f).kind = "chan")
    => last.err = "UnsupportedTypeError"

\* The field at path as it is stored, a pointer not followed at the end.
RECURSIVE RawAt(_, _)
RawAt(v, path) ==
    IF path = <<>> THEN v
    ELSE RawAt((IF v.k = "ptr" THEN v.elem ELSE v).f[Head(path)], Tail(path))

\* Whether no nil pointer stands on the way to the field at path.
RECURSIVE Reachable(_, _)
Reachable(v, path) ==
    \/ path = <<>>
    \/ IF v.k = "ptr" THEN ~v.nil /\ Reachable(v.elem, path)
       ELSE Reachable(v.f[Head(path)], Tail(path))

\* The value of shape typ that v becomes when the texts are loaded in order.
RECURSIVE LoadedFrom(_, _, _, _)
LoadedFrom(v, typ, texts, separator) ==
    IF texts = <<>> THEN v
    ELSE LoadedFrom(setField(v, typ, Head(texts), separator).v, typ, Tail(texts), separator)

\* The environment loader ran on a pointer to the config and returned the
\* error of a value that does not convert.
EnvConversionFailed ==
    /\ EnvLoaderRan
    /\ last.reads # <<>>
    /\ last.err \notin {NoErr, "ConfigTypeError", "UnsupportedTypeError"}

\* The os.Getenv calls made before the one whose value failed to convert.
ReadsBeforeFailure == SubSeq(last.reads, 1, Len(last.reads) - 1)

FailedPath == last.reads[Len(last.reads)].path

\* C16: when a value fails to convert, the environment loader returns the
\* error, every field that was given a value before the failing one holds
\* the value loaded from it, and every field the walk had not come to has
\* the value it had before the load.
C16_PartialLoad ==
    EnvConversionFailed =>
        \A f \in AllFields :
            /\ (/\ f.path # FailedPath
                /\ Shape(f).kind # "struct"
                /\ EnvTexts(ReadsBeforeFailure, f.path) # <<>>)
               => /\ HasAt(cfg, f.path)
                  /\ GetAt(cfg, f.path)
                       = LoadedFrom(IF HasAt(last.pre, f.path) THEN GetAt(last.pre, f.path)
                                    ELSE Zero(Shape(f)),
                                    Shape(f), EnvTexts(ReadsBeforeFailure, f.path),
                                    last.envConf.separator)
            /\ (ReadCount(last.reads, f.path) = 0 /\ Reachable(last.pre, f.path))
               => /\ Reachable(cfg, f.path)
                  /\ RawAt(cfg, f.path) = RawAt(last.pre, f.path)

\* C16 witness: the loader failed on a field that has a field before it that
\* it had changed and a field after it that holds a default.
C16_Witness ==
    /\ EnvConversionFailed
    /\ \E f \in AllFields :
          /\ f.path # FailedPath
          /\ EnvTexts(ReadsBeforeFailure, f.path) # <<>>
          /\ GetAt(cfg, f.path) # GetAt(last.pre, f.path)
    /\ \E f \in AllFields :
          /\ f.field.exported
          /\ ReadCount(last.reads, f.path) = 0
          /\ Reachable(last.pre, f.path)
          /\ RawAt(cfg, f.path) # Zero(f.field.typ)

\* Whether some comma-separated entry of a text has no '='.
EntryWithoutEquals(text) ==
    \E i \in DOMAIN Split(text, <<",">>) :
        \A j \in DOMAIN Split(text, <<",">>)[i] : Split(text, <<",">>)[i][j] # "="

\* C17: when the command line gives a map flag a value one of whose
\* comma-separated entries has no '=', whatever its position, mapValue.Set
\* returns an error and flag.Parse fails.
C17_MapEntryRejected ==
    (/\ status # "idle"
     /\ last.op = "loadFromFlags"
     /\ last.isPtr
     /\ last.err = NoErr
     /\ \E i \in DOMAIN args :
           /\ args[i].name \in DOMAIN fs.formal
           /\ fs.formal[args[i].name].typ.kind = "map"
           /\ EntryWithoutEquals(args[i].value))
    => last.parseErr # NoErr

\* Whether text is a base-10 number outside the range of the integer shape.
OutOfRange(text, typ) ==
    /\ typ.kind \in {"int", "uint"}
    /\ (IF typ.kind = "int" THEN ParseInt(text, typ.bits) ELSE ParseUint(text, typ.bits)).err
         = "strconv.ErrRange"

\* C18: a base-10 text outside the range of an integer field's width is an
\* error and leaves the field unchanged, in the environment loader (the read
\* that brings it is the last one, and it fails) as in the flag loader
\* (flag.Parse fails).
C18_IntegerRangeChecked ==
    /\ EnvLoaderRan =>
          \A i \in DOMAIN last.reads :
              OutOfRange(last.reads[i].value, Shape(FieldAt(last.reads[i].path)))
              => /\ last.err # NoErr
                 /\ i = Len(last.reads)
                 /\ GetAt(cfg, last.reads[i].path) = GetAt(last.pre, last.reads[i].path)
    /\ (status # "idle" /\ last.op = "loadFromFlags" /\ last.isPtr /\ last.err = NoErr) =>
          \A i \in DOMAIN args :
              (/\ args[i].name \in DOMAIN fs.formal
               /\ OutOfRange(args[i].value, fs.formal[args[i].name].typ))
              => /\ last.parseErr # NoErr
                 /\ i = 1 => GetAt(cfg, fs.formal[args[i].name].path)
                               = GetAt(last.pre, fs.formal[args[i].name].path)

\* C19: splitOnWordBoundaries loses nothing: the tokens concatenated in order
\* are the input, the empty string gives no token, a string of one character
\* gives one token, and no token is empty.
C19_SplitLossless ==
    split.called =>
        /\ Join(split.tokens, <<>>) = split.s
        /\ split.s = <<>> => split.tokens = <<>>
        /\ Len(split.s) = 1 => Len(split.tokens) = 1
        /\ \A i \in DOMAIN split.tokens : split.tokens[i] # <<>>

\* C19 witness: a string was split into two tokens or more.
C19_Witness == split.called /\ Len(split.tokens) >= 2

\* The number of characters before token k + 1: the 0-based position the
\* boundary after token k stands before.
RECURSIVE LengthOfFirst(_, _)
LengthOfFirst(tokens, k) ==
    IF k = 0 THEN 0 ELSE LengthOfFirst(tokens, k - 1) + Len(tokens[k])

\* The positions the tokens have a boundary before.
Boundaries(tokens) == {LengthOfFirst(tokens, k) : k \in 1..(Len(tokens) - 1)}

\* The positions i >= 1 of C20 (0-based; s[i] of the claim is s[i + 1] here).
ClaimedBoundaries(s) ==
    {i \in 1..(Len(s) - 1) :
        /\ IsUpper(s[i + 1])
        /\ \/ IsLower(s[i])
           \/ IsUpper(s[i]) /\ i + 2 <= Len(s) /\ IsLower(s[i + 2])}

\* C20: splitOnWordBoundaries puts a boundary before position i >= 1 exactly
\* when s[i] is upper-case and either s[i-1] is lower-case, or s[i-1] is
\* upper-case and s[i+1] exists and is lower-case.
C20_BoundaryRule ==
    split.called => Boundaries(split.tokens) = ClaimedBoundaries(split.s)

\* The number of '=' in an entry, and the entry's text before and after its
\* first '='.
EqualsIn(entry) == Cardinality({j \in DOMAIN entry : entry[j] = "="})

FirstEquals(entry) == CHOOSE j \in DOMAIN entry : entry[j] = "=" /\ \A k \in 1..(j - 1) : entry[k] # "="

KeyText(entry) == SubSeq(entry, 1, FirstEquals(entry) - 1)

ValueText(entry) == SubSeq(entry, FirstEquals(entry) + 1, Len(entry))

\* The reads of the last call that brought a text to a map field.
MapReads ==
    {i \in DOMAIN last.reads :
        /\ last.reads[i].value # <<>>
        /\ Shape(FieldAt(last.reads[i].path)).kind = "map"}

\* The entries of the text of a read, split at the configured separator.
EntriesRead(i) == Split(last.reads[i].value, last.envConf.separator)

\* C21 as stated: the environment loader fails with the invalid map entry
\* error whenever some entry of a map field's text does not contain exactly
\* one '=', be it none or two and more.
C21_ExactlyOneEquals ==
    EnvLoaderRan =>
        \A i \in MapReads :
            (\E n \in DOMAIN EntriesRead(i) : EqualsIn(EntriesRead(i)[n]) # 1)
            => last.err = "InvalidMapValueError"

\* C21 amended: an entry with no '=' makes the environment loader fail with
\* the invalid map entry error at that read; an entry with two or more '='
\* is no such error: it is cut at its first '=', and on a map of strings the
\* key before it holds all the text after it.
C21_CutAtFirstEquals ==
    EnvLoaderRan =>
        \A i \in MapReads :
            /\ (\E n \in DOMAIN EntriesRead(i) : EqualsIn(EntriesRead(i)[n]) = 0)
               => (last.err = "InvalidMapValueError" /\ i = Len(last.reads))
            /\ (/\ \A n \in DOMAIN EntriesRead(i) : EqualsIn(EntriesRead(i)[n]) >= 1
                /\ Shape(FieldAt(last.reads[i].path)).elem.kind = "string")
               => /\ i = Len(last.reads) => last.err = NoErr
                  /\ \A n \in DOMAIN EntriesRead(i) :
                        (\A m \in DOMAIN EntriesRead(i) :
                            m > n => KeyText(EntriesRead(i)[m]) # KeyText(EntriesRead(i)[n]))
                        => /\ KeyText(EntriesRead(i)[n]) \in DOMAIN GetAt(cfg, last.reads[i].path).m
                           /\ GetAt(cfg, last.reads[i].path).m[KeyText(EntriesRead(i)[n])]
                                = VString(ValueText(EntriesRead(i)[n]))

\* C21 witness: the environment loader returned without error after reading
\* a map entry with two '=', and the key holds the text after the first.
C21_Witness ==
    /\ EnvLoaderRan
    /\ last.err = NoErr
    /\ \E i \in MapReads :
          \E n \in DOMAIN EntriesRead(i) :
              /\ EqualsIn(EntriesRead(i)[n]) = 2
              /\ GetAt(cfg, last.reads[i].path).m[KeyText(EntriesRead(i)[n])]
                   = VString(ValueText(EntriesRead(i)[n]))
              /\ Len(ValueText(EntriesRead(i)[n])) = 3

\* Whether the field at path q is the field at path p or lies beneath it.
Beneath(p, q) == Len(p) <= Len(q) /\ SubSeq(q, 1, Len(p)) = p

\* Whether no source of the last call had a text for the field f or for any
\* field beneath it.
NoSourceValue(f) ==
    \A g \in AllFields :
        Beneath(f.path, g.path)
        => /\ EnvTexts(last.reads, g.path) = <<>>
           /\ FlagTexts(args, fs.formal, g.path) = <<>>

\* C22: a pointer field that was nil before a call whose loaders ran on a
\* pointer to the config without error is still nil after it when no source
\* had a value for it or for any field beneath it.
C22_LazyPointers ==
    (/\ status = "returned"
     /\ last.isPtr
     /\ last.err = NoErr
     /\ last.calls # <<>>)
    => \A f \in AllFields :
          (/\ f.field.typ.kind = "ptr"
           /\ Reachable(last.pre, f.path)
           /\ RawAt(last.pre, f.path).nil
           /\ NoSourceValue(f))
          => /\ Reachable(cfg, f.path)
             /\ RawAt(cfg, f.path).nil

\* The fields of a struct embedded in a struct that a named field holds.
EmbeddedInNamed ==
    {f \in AllFields :
        /\ Shape(f).kind # "struct"
        /\ f.via # <<>>
        /\ ~f.via[1].anon
        /\ \E i \in DOMAIN f.via : f.via[i].anon}

\* C23: once the flag loader has bound the flags, every field of a struct
\* embedded inside a named struct field has a flag, and its name starts with
\* the named field's segment and a '.', as the names of the named field's
\* own fields do.
C23_EmbeddedInheritsPrefix ==
    (/\ status # "idle"
     /\ last.op = "loadFromFlags"
     /\ last.isPtr
     /\ Len(args) >= 1
     /\ last.err = NoErr)
    => \A f \in EmbeddedInNamed :
          \E n \in DOMAIN fs.formal :
              /\ fs.formal[n].path = f.path
              /\ HasPrefix(n, ToLower(f.via[1].name) \o <<".">>)

\* C24: when Load ran the flag loader and the text given for a flag did not
\* convert to the shape of its field, Load returns to its caller with an
\* error.
C24_FlagErrorPropagates ==
    (/\ status # "idle"
     /\ last.op = "Load"
     /\ \E i \in DOMAIN last.calls : last.calls[i].source = Flag
     /\ last.parseErr = "invalid value")
    => /\ status = "returned"
       /\ last.err # NoErr

\* The flag loader bound the flags and parsed a command line of one argument
\* that names the flag of a slice or map field.
OneCollectionFlag ==
    /\ status # "idle"
    /\ last.op = "loadFromFlags"
    /\ last.isPtr
    /\ last.err = NoErr
    /\ Len(args) = 1
    /\ args[1].name \in DOMAIN fs.formal
    /\ fs.formal[args[1].name].typ.kind \in {"slice", "map"}

\* What the environment adapter makes of the collection field the one
\* argument names, given the argument's text and the separator ','.
AsFromEnv ==
    setField(GetAt(last.pre, fs.formal[args[1].name].path), fs.formal[args[1].name].typ,
             args[1].value, <<",">>)

\* C25: the flag adapter's Set on a slice or map field ends as the
\* environment adapter does on the same text with the separator ',': an
\* error in both, or the same collection.
C25_FlagDecodesLikeEnv ==
    OneCollectionFlag =>
        /\ (last.parseErr # NoErr) <=> (AsFromEnv.err # NoErr)
        /\ AsFromEnv.err = NoErr
           => SameContent(GetAt(cfg, fs.formal[args[1].name].path), AsFromEnv.v)

\* The reads of the last call that brought a text to a slice or map field
\* whose elements are pointers to a scalar, every entry of the text (for a
\* map, its text after the '=') converting to the pointee's shape.
PointeeReads ==
    {i \in DOMAIN last.reads :
        /\ last.reads[i].value # <<>>
        /\ Shape(FieldAt(last.reads[i].path)).kind \in {"slice", "map"}
        /\ Shape(FieldAt(last.reads[i].path)).elem.kind = "ptr"
        /\ Shape(FieldAt(last.reads[i].path)).elem.elem.kind \in ScalarKinds
        /\ \A n \in DOMAIN EntriesRead(i) :
              setField(Zero(Shape(FieldAt(last.reads[i].path)).elem.elem),
                       Shape(FieldAt(last.reads[i].path)).elem.elem,
                       IF Shape(FieldAt(last.reads[i].path)).kind = "map"
                       THEN ValueText(EntriesRead(i)[n]) ELSE EntriesRead(i)[n],
                       last.envConf.separator).err = NoErr}

\* C26: the environment loader does not fail on a text for a slice or map of
\* pointers to a scalar whose entries convert to the pointee: the slice
\* ends with one non-nil pointer for each entry, the map holds a non-nil
\* pointer under each key.
C26_PointerElements ==
    EnvLoaderRan =>
        \A i \in PointeeReads :
            /\ i = Len(last.reads) => last.err = NoErr
            /\ Shape(FieldAt(last.reads[i].path)).kind = "slice"
               => /\ Len(GetAt(cfg, last.reads[i].path).elems) >= Len(EntriesRead(i))
                  /\ \A n \in DOMAIN GetAt(cfg, last.reads[i].path).elems :
                        ~GetAt(cfg, last.reads[i].path).elems[n].nil
            /\ Shape(FieldAt(last.reads[i].path)).kind = "map"
               => \A n \in DOMAIN EntriesRead(i) :
                     /\ KeyText(EntriesRead(i)[n]) \in DOMAIN GetAt(cfg, last.reads[i].path).m
                     /\ ~GetAt(cfg, last.reads[i].path).m[KeyText(EntriesRead(i)[n])].nil

\* The reads of the last call made for a named struct field itself.
StructReads ==
    {i \in DOMAIN last.reads :
        /\ Shape(FieldAt(last.reads[i].path)).kind = "struct"
        /\ ~FieldAt(last.reads[i].path).field.anon}

\* The os.Getenv calls made before the call numbered i.
ReadsBefore(i) == SubSeq(last.reads, 1, i - 1)

\* C27: the environment loader looks up the variable named for a nested
\* struct field after it has looked up every field inside the struct.  A
\* non-empty value ends the walk there with UnsupportedTypeError: the fields
\* given a value before hold what was loaded, and every field not reached is
\* as it was.  An empty value is no error.
C27_StructVariable ==
    EnvLoaderRan =>
        \A i \in StructReads :
            /\ \A g \in AllFields :
                  (g.path # last.reads[i].path /\ Beneath(last.reads[i].path, g.path))
                  => ReadCount(ReadsBefore(i), g.path) >= 1
            /\ last.reads[i].value = <<>> => (i = Len(last.reads) => last.err = NoErr)
            /\ last.reads[i].value # <<>>
               => /\ last.err = "UnsupportedTypeError"
                  /\ i = Len(last.reads)
                  /\ \A g \in AllFields :
                        /\ (Shape(g).kind # "struct" /\ EnvTexts(ReadsBefore(i), g.path) # <<>>)
                           => /\ HasAt(cfg, g.path)
                              /\ GetAt(cfg, g.path)
                                   = LoadedFrom(IF HasAt(last.pre, g.path)
                                                THEN GetAt(last.pre, g.path)
                                                ELSE Zero(Shape(g)),
                                                Shape(g), EnvTexts(ReadsBefore(i), g.path),
                                                last.envConf.separator)
                        /\ (ReadCount(last.reads, g.path) = 0 /\ Reachable(last.pre, g.path))
                           => /\ Reachable(cfg, g.path)
                              /\ RawAt(cfg, g.path) = RawAt(last.pre, g.path)

\* C27 witness: the walk ended with UnsupportedTypeError at the variable of
\* a nested struct, after it changed a field inside the struct and a field
\* before it, and with a field after it never looked up.
C27_Witness ==
    /\ EnvLoaderRan
    /\ last.err = "UnsupportedTypeError"
    /\ \E i \in StructReads :
          /\ last.reads[i].value # <<>>
          /\ \E g \in AllFields :
                /\ g.path # last.reads[i].path
                /\ Beneath(last.reads[i].path, g.path)
                /\ EnvTexts(ReadsBefore(i), g.path) # <<>>
                /\ GetAt(cfg, g.path) # GetAt(last.pre, g.path)
          /\ \E g \in AllFields :
                /\ ~Beneath(last.reads[i].path, g.path)
                /\ EnvTexts(ReadsBefore(i), g.path) # <<>>
                /\ GetAt(cfg, g.path) # GetAt(last.pre, g.path)
          /\ \E g \in AllFields :
                /\ ReadCount(last.reads, g.path) = 0
                /\ RawAt(cfg, g.path) = Zero(g.field.typ)

\* Load(&cfg, UseEnv(), UseEnv()) returned without an error.
LoadedEnvTwice ==
    /\ status = "returned"
    /\ last.op = "Load"
    /\ last.opts = <<UseEnv(<<>>), UseEnv(<<>>)>>
    /\ last.err = NoErr

\* The config one run of the environment walk of the last call makes of the
\* config the call was given.
SingleRun == envLoader(last.envConf, TRUE, last.pre, ConfigType(scen), env).v

\* The elements one run of the environment walk appends to the slice at path.
AppendedOnce(path) ==
    SubSeq(GetAt(SingleRun, path).elems, Len(GetAt(last.pre, path).elems) + 1,
           Len(GetAt(SingleRun, path).elems))

====
